---- MODULE Spec2Model ----
(***************************************************************************)
(* LinkUp server: the three builds of the REST backend found in the        *)
(* repository, over one document database.                                 *)
(*   "mongoose" : src/unnamed/part_000 lines 1-188   (mongoose models)     *)
(*   "jwt"      : src/unnamed/part_000 lines 190-479 (native driver, JWT)  *)
(*   "firebase" : src/index.js                       (native driver,       *)
(*                                                    Firebase tokens)     *)
(* Every request handler is an async function: it runs atomically up to    *)
(* its next awaited database operation, and the database executes each     *)
(* operation atomically on one document set.  A request is therefore a     *)
(* small process whose pc names the database operation it is waiting for;  *)
(* one action of the model executes that operation together with the       *)
(* JavaScript that follows it up to the next awaited operation.            *)
(***************************************************************************)
EXTENDS Integers, Sequences, FiniteSets, TLC

(* ----------------------------- bounds ---------------------------------- *)
\* number of requests the clients send in one behaviour
MaxReqs == 2
\* number of distinct e-mail addresses the clients use
NumEmails == 3
\* number of requests the server is handling at the same time
MaxInFlight == 2

(* ------------------------- program constants --------------------------- *)
OK == 200
BadRequest == 400
Unauthenticated == 401
Forbidden == 403
\* no response is written: the async handler rejected (TypeError,
\* duplicate key) and nothing catches the rejection
NoResponse == 0

Emails == 1..NumEmails
Reqs == 1..MaxReqs
Servers == {"mongoose", "jwt", "firebase"}

VARIABLES
  server,         \* which build is running
  users,          \* collection users: sequence of documents, _id = index
  posts,          \* collection posts: function _id -> document
  nextPost,       \* next fresh post _id
  comments,       \* collection comments: set of documents
  nextComment,    \* next fresh comment _id
  notifications,  \* collection notifications: sequence of documents
  reqs            \* the requests: one record per request

vars == <<server, users, posts, nextPost, comments, nextComment,
          notifications, reqs>>

(* ----------------------------- helpers --------------------------------- *)
Range(s) == {s[i] : i \in DOMAIN s}
Count(x, s) == Cardinality({i \in DOMAIN s : s[i] = x})

\* $push, and MongooseArray.push followed by save(): appends unconditionally
Push(arr, x) == Append(arr, x)

\* (mutant of AddToSet: the update written with $push)
AddToSetAlways(arr, x) == Append(arr, x)

\* $addToSet: appends the value unless the array already holds it
AddToSet(arr, x) == IF x \in Range(arr) THEN arr ELSE Append(arr, x)

\* $pull: removes every occurrence of the value
Pull(arr, x) == SelectSeq(arr, LAMBDA y : y # x)

\* the document register / the lazy creation of auth inserts
NewUser(email) ==
  [email |-> email, role |-> "user", banned |-> FALSE,
   followers |-> <<>>, following |-> <<>>]

\* a document that carries none of role / banned / followers / following:
\* the mongoose schema has no such paths, and the upsert of the firebase
\* register sets fullName and email only.  An absent role is not "admin",
\* an absent ban flag is falsy, an absent array is created by $addToSet.
BareUser(email) ==
  [email |-> email, role |-> "unset", banned |-> FALSE,
   followers |-> <<>>, following |-> <<>>]

UserIds == 1..Len(users)
ByEmail(e) == {u \in UserIds : users[u].email = e}

\* (mutant of CreateNotification: the self check left out)
CreateNotificationNoCheck(ns, type, sender, receiver, postId) ==
  Append(ns, [type |-> type, sender |-> sender, receiver |-> receiver,
              postId |-> postId])

\* createNotification: nothing when sender equals receiver, else insertOne
CreateNotification(ns, type, sender, receiver, postId) ==
  IF sender = receiver
    THEN ns
    ELSE Append(ns, [type |-> type, sender |-> sender, receiver |-> receiver,
                     postId |-> postId])

\* (mutant of AdminOnly: the role check left out)
AdminOnlyOpen(role) == TRUE

\* adminOnly: passes when req.user.role is "admin"
AdminOnly(role) == role = "admin"

\* (mutant of IsSelf: the self-follow guard left out)
IsSelfNever(targetId, userId) == FALSE

\* the self-follow guard of POST /api/follow/:id
IsSelf(targetId, userId) == targetId = userId

\* the ownership guard of DELETE /api/posts/:id (mongoose)
NotAllowed(author, userId) == author # userId

\* the ban check of auth
IsBanned(user) == user.banned


(* ----------------------------- requests -------------------------------- *)
Idle ==
  [op |-> "none", pc |-> "idle", cred |-> 0, user |-> 0, role |-> "unset",
   target |-> 0, body |-> "none", pauthor |-> 0, status |-> 0]

\* res.status(s).json(..) / res.json(..): the handler ends with a response
\* (of a finished request the model keeps the route and the status, and of
\* a follow and a ban the actor and the :id as well)
Finish(q, s) ==
  IF q.op \in {"follow", "ban"}
    THEN [Idle EXCEPT !.pc = "done", !.op = q.op, !.status = s,
                      !.user = q.user, !.target = q.target]
    ELSE [Idle EXCEPT !.pc = "done", !.op = q.op, !.status = s]

\* the handler's promise rejects: it ends and no response is written
Reject(q) == Finish(q, NoResponse)

InFlight(r) == reqs[r].pc \notin {"idle", "done"}
Done(r) == reqs[r].pc = "done"
Quiescent == \A r \in DOMAIN reqs : ~InFlight(r)

\* the routes of each build
OpsOf(srv) ==
  CASE srv = "mongoose" ->
         {"register", "createPost", "deletePost", "like", "addComment",
          "deleteComment"}
    [] srv = "jwt" ->
         {"register", "profile", "follow", "unfollow", "createPost", "like",
          "addComment", "ban", "adminDeletePost"}
    [] srv = "firebase" ->
         {"register", "profile", "follow", "createPost", "addComment", "ban"}

\* req.body of PUT /api/profile, which is handed to $set whole.  The bodies
\* the clients send here: a profile field, and the fields of the document
\* that are not profile fields (arrays sent are duplicate free).
ProfileBodies == {"bio", "roleAdmin", "bannedFalse", "graphSelf"}

\* { $set: req.body } applied to the document of user id
SetBody(doc, id, body) ==
  CASE body = "roleAdmin"     -> [doc EXCEPT !.role = "admin"]
    [] body = "bannedFalse"   -> [doc EXCEPT !.banned = FALSE]
    [] body = "graphSelf"     -> [doc EXCEPT !.following = <<id>>,
                                             !.followers = <<id>>]
    [] OTHER                  -> doc

\* the e-mail addresses that have appeared: those of the accounts and those
\* carried by the requests in flight
UsedEmails ==
  {users[u].email : u \in UserIds}
    \cup {reqs[r].cred : r \in {r0 \in DOMAIN reqs :
                                  server = "firebase" /\ InFlight(r0)}}
    \cup {reqs[r].target : r \in {r0 \in DOMAIN reqs :
                                    reqs[r0].pc = "register"}}

\* the addresses a client may send: addresses are interchangeable, so they
\* are numbered in the order in which they first appear
KnownEmails == {e \in Emails : \A e0 \in 1..(e - 1) : e0 \in UsedEmails}

\* the credentials a client can hold: a JWT signed by login for an existing
\* user id (mongoose, jwt), a Firebase token for any verified e-mail
Credentials == IF server = "firebase" THEN KnownEmails ELSE UserIds

\* the :id of the route, or the e-mail of the register body.  Post and
\* comment id 0 stands for a well-formed id that no document ever had.
Targets(op) ==
  CASE op = "register" -> KnownEmails
    [] op \in {"follow", "unfollow", "ban"} -> UserIds
    [] op \in {"deletePost", "like", "addComment", "adminDeletePost"} ->
         0..(nextPost - 1)
    [] op = "deleteComment" -> 0..(nextComment - 1)
    [] OTHER -> {0}

Bodies(op) == IF op = "profile" THEN ProfileBodies ELSE {"none"}

\* the type of the notification a route creates
NotifType(op) ==
  CASE op = "follow" -> "follow"
    [] op = "like" -> "like"
    [] OTHER -> "comment"

\* await createNotification(..) followed by res.json(..): when
\* createNotification returns at once the response is written in the same
\* step, otherwise the handler waits for Notifications.insertOne
NotifyOrFinish(q, receiver, postId) ==
  IF CreateNotification(<<>>, NotifType(q.op), q.user, receiver, postId) = <<>>
    THEN Finish(q, OK)
    ELSE [q EXCEPT !.pc = "notify", !.pauthor = receiver]

\* next() of the gate: the handler (and adminOnly before it) runs up to its
\* first awaited database operation, with req.user = (uid, role)
Dispatch(q0, uid, role) ==
  LET q == [q0 EXCEPT !.user = uid, !.role = role] IN
  CASE q.op = "profile" -> [q EXCEPT !.pc = "setProfile"]
    [] q.op = "follow" ->
         IF IsSelf(q.target, uid) THEN Finish(q, BadRequest)
                                  ELSE [q EXCEPT !.pc = "addFollowing"]
    [] q.op = "unfollow" -> [q EXCEPT !.pc = "pullFollowing"]
    [] q.op = "createPost" -> [q EXCEPT !.pc = "insertPost"]
    [] q.op = "like" -> [q EXCEPT !.pc = "findPostLike"]
    [] q.op = "addComment" ->
         IF server = "mongoose" THEN [q EXCEPT !.pc = "saveComment"]
                                ELSE [q EXCEPT !.pc = "findPostComment"]
    [] q.op = "deletePost" -> [q EXCEPT !.pc = "findPostDelete"]
    [] q.op = "deleteComment" -> [q EXCEPT !.pc = "findComment"]
    [] q.op = "ban" ->
         IF AdminOnly(role) THEN [q EXCEPT !.pc = "setBanned"]
                            ELSE Finish(q, Forbidden)
    [] q.op = "adminDeletePost" ->
         IF AdminOnly(role) THEN [q EXCEPT !.pc = "deletePost"]
                            ELSE Finish(q, Forbidden)

(* ------------------------------- Init ---------------------------------- *)
\* a database that holds two accounts, the first an administrator, and one
\* post of the second; no request has arrived
SeedUsers(srv) ==
  IF srv = "mongoose"
    THEN <<BareUser(1), BareUser(2)>>
    ELSE <<[NewUser(1) EXCEPT !.role = "admin"], NewUser(2)>>

Init ==
  /\ server \in Servers
  /\ users = SeedUsers(server)
  /\ posts = (1 :> [author |-> 2, likes |-> <<>>])
  /\ nextPost = 2
  /\ comments = {}
  /\ nextComment = 1
  /\ notifications = <<>>
  /\ reqs = [r \in Reqs |-> Idle]

(* ------------------------ arrival and the gate ------------------------- *)
\* A request arrives in the next free slot.  Between its arrival and its
\* first database operation a request has read and written nothing, so the
\* arrival is taken together with that operation where the route awaits
\* one at once (the gates of the native builds).
Arrive(r) ==
  /\ reqs[r].pc = "idle"
  /\ \A r0 \in 1..(r - 1) : reqs[r0].pc # "idle"
  /\ Cardinality({r0 \in DOMAIN reqs : InFlight(r0)}) < MaxInFlight

NewReq(op, cred, target, body) ==
  [Idle EXCEPT !.op = op, !.cred = cred, !.target = target, !.body = body]

GatedOps == OpsOf(server) \ {"register"}

\* the synchronous part of an arrival: register has no gate and awaits the
\* hash; a request without an Authorization header is answered 401 by auth;
\* the gate of the mongoose build (jwt.verify) awaits nothing and sets
\* req.userId
Start(r) ==
  /\ Arrive(r)
  /\ \/ \E email \in Targets("register") :
          reqs' = [reqs EXCEPT ![r] =
            [NewReq("register", 0, email, "none") EXCEPT !.pc = "register"]]
     \/ \E op \in GatedOps :
          reqs' = [reqs EXCEPT ![r] =
            Finish(NewReq(op, 0, 0, "none"), Unauthenticated)]
     \/ /\ server = "mongoose"
        /\ \E op \in GatedOps : \E cred \in Credentials :
           \E target \in Targets(op) :
             reqs' = [reqs EXCEPT ![r] =
               Dispatch(NewReq(op, cred, target, "none"), cred, "unset")]
  /\ UNCHANGED <<server, users, posts, nextPost, comments, nextComment,
                 notifications>>

\* auth, jwt build: Users.findOne({_id}), then the ban check
AuthFindById(r) ==
  /\ server = "jwt"
  /\ Arrive(r)
  /\ \E op \in GatedOps : \E cred \in Credentials :
     \E target \in Targets(op) : \E body \in Bodies(op) :
       LET q == NewReq(op, cred, target, body) IN
       reqs' = [reqs EXCEPT ![r] =
         IF cred \notin UserIds \/ IsBanned(users[cred])
           THEN Finish(q, Forbidden)
           ELSE Dispatch(q, cred, users[cred].role)]
  /\ UNCHANGED <<server, users, posts, nextPost, comments, nextComment,
                 notifications>>

\* auth, firebase build: Users.findOne({email}); findOne returns any one of
\* the documents that match
AuthFindByEmail(r) ==
  /\ server = "firebase"
  /\ Arrive(r)
  /\ \E op \in GatedOps : \E cred \in Credentials :
     \E target \in Targets(op) : \E body \in Bodies(op) :
       LET q == NewReq(op, cred, target, body) IN
       IF ByEmail(cred) = {}
         THEN reqs' = [reqs EXCEPT ![r] = [q EXCEPT !.pc = "authInsert"]]
         ELSE \E u \in ByEmail(cred) :
                reqs' = [reqs EXCEPT ![r] =
                  IF IsBanned(users[u]) THEN Finish(q, Forbidden)
                                        ELSE Dispatch(q, u, users[u].role)]
  /\ UNCHANGED <<server, users, posts, nextPost, comments, nextComment,
                 notifications>>

\* auth, firebase build: Users.insertOne(newUser) of the lazy creation
AuthInsert(r) ==
  /\ reqs[r].pc = "authInsert"
  /\ LET q == reqs[r]
         newUser == NewUser(q.cred) IN
     /\ users' = Append(users, newUser)
     /\ reqs' = [reqs EXCEPT ![r] =
          IF IsBanned(newUser) THEN Finish(q, Forbidden)
                               ELSE Dispatch(q, Len(users) + 1, newUser.role)]
  /\ UNCHANGED <<server, posts, nextPost, comments, nextComment,
                 notifications>>


(* ----------------------------- accounts -------------------------------- *)
\* POST /api/register.  mongoose: save() under the unique index on email,
\* which rejects a second document; jwt: insertOne; firebase: updateOne
\* with upsert keyed by email
Register(r) ==
  /\ reqs[r].pc = "register"
  /\ LET q == reqs[r]
         taken == ByEmail(q.target) # {} IN
     CASE server = "mongoose" ->
            IF taken
              THEN /\ users' = users
                   /\ reqs' = [reqs EXCEPT ![r] = Reject(q)]
              ELSE /\ users' = Append(users, BareUser(q.target))
                   /\ reqs' = [reqs EXCEPT ![r] = Finish(q, OK)]
       [] server = "jwt" ->
            /\ users' = Append(users, NewUser(q.target))
            /\ reqs' = [reqs EXCEPT ![r] = Finish(q, OK)]
       [] server = "firebase" ->
            /\ users' = IF taken THEN users
                                 ELSE Append(users, BareUser(q.target))
            /\ reqs' = [reqs EXCEPT ![r] = Finish(q, OK)]
  /\ UNCHANGED <<server, posts, nextPost, comments, nextComment,
                 notifications>>

\* PUT /api/profile: Users.updateOne({_id}, {$set: req.body})
SetProfile(r) ==
  /\ reqs[r].pc = "setProfile"
  /\ LET q == reqs[r] IN
     /\ users' = [users EXCEPT ![q.user] = SetBody(@, q.user, q.body)]
     /\ reqs' = [reqs EXCEPT ![r] = Finish(q, OK)]
  /\ UNCHANGED <<server, posts, nextPost, comments, nextComment,
                 notifications>>

\* PUT /api/admin/users/:id/ban: Users.updateOne({_id}, {$set: {banned: true}})
SetBanned(r) ==
  /\ reqs[r].pc = "setBanned"
  /\ LET q == reqs[r] IN
     /\ users' = [users EXCEPT ![q.target].banned = TRUE]
     /\ reqs' = [reqs EXCEPT ![r] = Finish(q, OK)]
  /\ UNCHANGED <<server, posts, nextPost, comments, nextComment,
                 notifications>>

(* ------------------------------ follow --------------------------------- *)
\* POST /api/follow/:id, first update: $addToSet following
AddFollowing(r) ==
  /\ reqs[r].pc = "addFollowing"
  /\ LET q == reqs[r] IN
     /\ users' = [users EXCEPT ![q.user].following = AddToSet(@, q.target)]
     /\ reqs' = [reqs EXCEPT ![r].pc = "addFollowers"]
  /\ UNCHANGED <<server, posts, nextPost, comments, nextComment,
                 notifications>>

\* POST /api/follow/:id, second update: $addToSet followers, then
\* createNotification
AddFollowers(r) ==
  /\ reqs[r].pc = "addFollowers"
  /\ LET q == reqs[r] IN
     /\ users' = [users EXCEPT ![q.target].followers = AddToSet(@, q.user)]
     /\ reqs' = [reqs EXCEPT ![r] = NotifyOrFinish(q, q.target, 0)]
  /\ UNCHANGED <<server, posts, nextPost, comments, nextComment,
                 notifications>>

\* POST /api/unfollow/:id, first update: $pull following
PullFollowing(r) ==
  /\ reqs[r].pc = "pullFollowing"
  /\ LET q == reqs[r] IN
     /\ users' = [users EXCEPT ![q.user].following = Pull(@, q.target)]
     /\ reqs' = [reqs EXCEPT ![r].pc = "pullFollowers"]
  /\ UNCHANGED <<server, posts, nextPost, comments, nextComment,
                 notifications>>

\* POST /api/unfollow/:id, second update: $pull followers
PullFollowers(r) ==
  /\ reqs[r].pc = "pullFollowers"
  /\ LET q == reqs[r] IN
     /\ users' = [users EXCEPT ![q.target].followers = Pull(@, q.user)]
     /\ reqs' = [reqs EXCEPT ![r] = Finish(q, OK)]
  /\ UNCHANGED <<server, posts, nextPost, comments, nextComment,
                 notifications>>

\* Notifications.insertOne of createNotification, then res.json
Notify(r) ==
  /\ reqs[r].pc = "notify"
  /\ LET q == reqs[r] IN
     /\ notifications' =
          CreateNotification(notifications, NotifType(q.op), q.user,
                             q.pauthor, IF q.op = "follow" THEN 0 ELSE q.target)
     /\ reqs' = [reqs EXCEPT ![r] = Finish(q, OK)]
  /\ UNCHANGED <<server, users, posts, nextPost, comments, nextComment>>

(* ------------------------------- posts --------------------------------- *)
\* POST /api/posts: Posts.insertOne / post.save()
InsertPost(r) ==
  /\ reqs[r].pc = "insertPost"
  /\ LET q == reqs[r] IN
     /\ posts' = (nextPost :> [author |-> q.user, likes |-> <<>>]) @@ posts
     /\ nextPost' = nextPost + 1
     /\ reqs' = [reqs EXCEPT ![r] = Finish(q, OK)]
  /\ UNCHANGED <<server, users, comments, nextComment, notifications>>

\* DELETE /api/posts/:id (mongoose): Post.findById, then the ownership
\* guard; post.author of a missing post throws
FindPostDelete(r) ==
  /\ reqs[r].pc = "findPostDelete"
  /\ LET q == reqs[r] IN
     reqs' = [reqs EXCEPT ![r] =
       IF q.target \notin DOMAIN posts THEN Reject(q)
       ELSE IF NotAllowed(posts[q.target].author, q.user)
         THEN Finish(q, Forbidden)
         ELSE [q EXCEPT !.pc = "deletePost"]]
  /\ UNCHANGED <<server, users, posts, nextPost, comments, nextComment,
                 notifications>>

\* post.deleteOne() / Posts.deleteOne({_id})
DeletePost(r) ==
  /\ reqs[r].pc = "deletePost"
  /\ LET q == reqs[r] IN
     /\ posts' = [p \in DOMAIN posts \ {q.target} |-> posts[p]]
     /\ reqs' = [reqs EXCEPT ![r].pc = "deleteComments"]
  /\ UNCHANGED <<server, users, nextPost, comments, nextComment,
                 notifications>>

\* Comment.deleteMany({post}) / Comments.deleteMany({postId})
DeleteComments(r) ==
  /\ reqs[r].pc = "deleteComments"
  /\ LET q == reqs[r] IN
     /\ comments' = {c \in comments : c.post # q.target}
     /\ reqs' = [reqs EXCEPT ![r] = Finish(q, OK)]
  /\ UNCHANGED <<server, users, posts, nextPost, nextComment, notifications>>

(* ------------------------------- likes --------------------------------- *)
\* PUT /api/posts/:id/like: the read of the post and the membership test;
\* post.likes of a missing post throws
FindPostLike(r) ==
  /\ reqs[r].pc = "findPostLike"
  /\ LET q == reqs[r] IN
     reqs' = [reqs EXCEPT ![r] =
       IF q.target \notin DOMAIN posts THEN Reject(q)
       ELSE IF q.user \in Range(posts[q.target].likes) THEN Finish(q, OK)
       ELSE IF server = "mongoose" THEN [q EXCEPT !.pc = "savePost"]
       ELSE [q EXCEPT !.pc = "addLike",
                      !.pauthor = posts[q.target].author]]
  /\ UNCHANGED <<server, users, posts, nextPost, comments, nextComment,
                 notifications>>

\* jwt build: Posts.updateOne({_id}, {$addToSet: {likes}}), then
\* createNotification to the author read before
AddLike(r) ==
  /\ reqs[r].pc = "addLike"
  /\ LET q == reqs[r] IN
     /\ posts' = IF q.target \in DOMAIN posts
                   THEN [posts EXCEPT ![q.target].likes = AddToSet(@, q.user)]
                   ELSE posts
     /\ reqs' = [reqs EXCEPT ![r] = NotifyOrFinish(q, q.pauthor, q.target)]
  /\ UNCHANGED <<server, users, nextPost, comments, nextComment,
                 notifications>>

\* mongoose build: post.likes.push(userId); post.save() sends the pushed
\* element as a $push; a document deleted meanwhile is not re-created, and
\* save() resolves or rejects depending on the mongoose version
SavePost(r) ==
  /\ reqs[r].pc = "savePost"
  /\ LET q == reqs[r] IN
     IF q.target \in DOMAIN posts
       THEN /\ posts' = [posts EXCEPT ![q.target].likes = Push(@, q.user)]
            /\ reqs' = [reqs EXCEPT ![r] = Finish(q, OK)]
       ELSE /\ posts' = posts
            /\ \E s \in {OK, NoResponse} :
                 reqs' = [reqs EXCEPT ![r] = Finish(q, s)]
  /\ UNCHANGED <<server, users, nextPost, comments, nextComment,
                 notifications>>

(* ------------------------------ comments ------------------------------- *)
\* POST /api/posts/:id/comments (native builds): Posts.findOne({_id})
FindPostComment(r) ==
  /\ reqs[r].pc = "findPostComment"
  /\ LET q == reqs[r] IN
     reqs' = [reqs EXCEPT ![r] =
       [q EXCEPT !.pc = "insertComment",
                 !.pauthor = IF q.target \in DOMAIN posts
                               THEN posts[q.target].author ELSE 0]]
  /\ UNCHANGED <<server, users, posts, nextPost, comments, nextComment,
                 notifications>>

\* POST /api/posts/:id/comments (native builds): Comments.insertOne, then
\* createNotification({receiver: post.author}), which throws when the post
\* read before was null
InsertComment(r) ==
  /\ reqs[r].pc = "insertComment"
  /\ LET q == reqs[r] IN
     /\ comments' = comments \cup
          {[id |-> nextComment, post |-> q.target, author |-> q.user]}
     /\ nextComment' = nextComment + 1
     /\ reqs' = [reqs EXCEPT ![r] =
          IF q.pauthor = 0 THEN Reject(q)
                           ELSE NotifyOrFinish(q, q.pauthor, q.target)]
  /\ UNCHANGED <<server, users, posts, nextPost, notifications>>

\* POST /api/posts/:id/comments (mongoose): comment.save(), no read of the
\* post
SaveComment(r) ==
  /\ reqs[r].pc = "saveComment"
  /\ LET q == reqs[r] IN
     /\ comments' = comments \cup
          {[id |-> nextComment, post |-> q.target, author |-> q.user]}
     /\ nextComment' = nextComment + 1
     /\ reqs' = [reqs EXCEPT ![r] = Finish(q, OK)]
  /\ UNCHANGED <<server, users, posts, nextPost, notifications>>

\* DELETE /api/comments/:id (mongoose): Comment.findById, then the
\* ownership guard; comment.author of a missing comment throws
FindComment(r) ==
  /\ reqs[r].pc = "findComment"
  /\ LET q == reqs[r]
         found == {c \in comments : c.id = q.target} IN
     reqs' = [reqs EXCEPT ![r] =
       IF found = {} THEN Reject(q)
       ELSE IF \E c \in found : NotAllowed(c.author, q.user)
         THEN Finish(q, Forbidden)
         ELSE [q EXCEPT !.pc = "deleteComment"]]
  /\ UNCHANGED <<server, users, posts, nextPost, comments, nextComment,
                 notifications>>

\* DELETE /api/comments/:id (mongoose): comment.deleteOne()
DeleteComment(r) ==
  /\ reqs[r].pc = "deleteComment"
  /\ LET q == reqs[r] IN
     /\ comments' = {c \in comments : c.id # q.target}
     /\ reqs' = [reqs EXCEPT ![r] = Finish(q, OK)]
  /\ UNCHANGED <<server, users, posts, nextPost, nextComment, notifications>>

(* ------------------------------- Next ---------------------------------- *)
Next ==
  \/ \E r \in DOMAIN reqs : Start(r)
  \/ \E r \in DOMAIN reqs : AuthFindById(r)
  \/ \E r \in DOMAIN reqs : AuthFindByEmail(r)
  \/ \E r \in DOMAIN reqs : AuthInsert(r)
  \/ \E r \in DOMAIN reqs : Register(r)
  \/ \E r \in DOMAIN reqs : SetProfile(r)
  \/ \E r \in DOMAIN reqs : SetBanned(r)
  \/ \E r \in DOMAIN reqs : AddFollowing(r)
  \/ \E r \in DOMAIN reqs : AddFollowers(r)
  \/ \E r \in DOMAIN reqs : PullFollowing(r)
  \/ \E r \in DOMAIN reqs : PullFollowers(r)
  \/ \E r \in DOMAIN reqs : Notify(r)
  \/ \E r \in DOMAIN reqs : InsertPost(r)
  \/ \E r \in DOMAIN reqs : FindPostDelete(r)
  \/ \E r \in DOMAIN reqs : DeletePost(r)
  \/ \E r \in DOMAIN reqs : DeleteComments(r)
  \/ \E r \in DOMAIN reqs : FindPostLike(r)
  \/ \E r \in DOMAIN reqs : AddLike(r)
  \/ \E r \in DOMAIN reqs : SavePost(r)
  \/ \E r \in DOMAIN reqs : FindPostComment(r)
  \/ \E r \in DOMAIN reqs : InsertComment(r)
  \/ \E r \in DOMAIN reqs : SaveComment(r)
  \/ \E r \in DOMAIN reqs : FindComment(r)
  \/ \E r \in DOMAIN reqs : DeleteComment(r)

Spec == Init /\ [][Next]_vars

\* the same server and database with one more request sent
InitWide ==
  /\ server \in Servers
  /\ users = SeedUsers(server)
  /\ posts = (1 :> [author |-> 2, likes |-> <<>>])
  /\ nextPost = 2
  /\ comments = {}
  /\ nextComment = 1
  /\ notifications = <<>>
  /\ reqs = [r \in 1..(MaxReqs + 1) |-> Idle]

SpecWide == InitWide /\ [][Next]_vars


(* ============================== claims ================================= *)
LikeNotifs(a, p) ==
  Cardinality({i \in DOMAIN notifications :
                 /\ notifications[i].type = "like"
                 /\ notifications[i].sender = a
                 /\ notifications[i].postId = p})

\* C1: for every identity A and post P, P.likes holds A at most once and
\* at most one 'like' notification with sender A and post P exists; in the
\* builds that notify, once no request is in flight, A in P.likes and A not
\* P's author means exactly one such notification exists.
C1_LikeOnce ==
  \A p \in DOMAIN posts : \A a \in UserIds :
    /\ Count(a, posts[p].likes) <= 1
    /\ LikeNotifs(a, p) <= 1
    /\ (server = "jwt" /\ Quiescent /\ a # posts[p].author
          /\ a \in Range(posts[p].likes)) => LikeNotifs(a, p) = 1

OnlyFollowRequests ==
  \A r \in DOMAIN reqs : reqs[r].op \in {"none", "follow", "unfollow"}

\* C2: under any interleaving of follow and unfollow requests, whenever no
\* request is in flight, B is in A.following exactly when A is in
\* B.followers, for all identities A and B.
C2_SymmetricEdges ==
  (OnlyFollowRequests /\ Quiescent) =>
    \A a \in UserIds : \A b \in UserIds :
      (b \in Range(users[a].following)) <=> (a \in Range(users[b].followers))

\* C3: in every reachable state at most one Identity record exists per
\* e-mail address.
C3_OneIdentityPerEmail ==
  \A e \in Emails : Cardinality(ByEmail(e)) <= 1

BanDone(u) ==
  \E r \in DOMAIN reqs :
    /\ Done(r) /\ reqs[r].op = "ban" /\ reqs[r].status = OK
    /\ reqs[r].target = u

\* the credential that resolves to identity u
CredOf(u) == IF server = "firebase" THEN users[u].email ELSE u

\* C4: once the ban of an identity has completed, no request that enters
\* the gate afterwards with that identity's credential gets past the gate
\* (it is answered at the gate and so mutates nothing).
C4_BannedRejected ==
  [][\A r \in DOMAIN reqs :
       (reqs[r].pc = "idle" /\ reqs'[r].pc \notin {"idle", "done", "register"})
         => ~ \E u \in UserIds :
                BanDone(u) /\ CredOf(u) = reqs'[r].cred]_vars

\* C5: every notification record has a sender different from its receiver.
C5_NoSelfNotification ==
  \A i \in DOMAIN notifications :
    notifications[i].sender # notifications[i].receiver

\* an author has liked or commented on their own post, the request has
\* finished, and no notification was written
C5_Witness ==
  /\ server # "mongoose"
  /\ Quiescent
  /\ notifications = <<>>
  /\ \E p \in DOMAIN posts :
       \/ posts[p].author \in Range(posts[p].likes)
       \/ \E c \in comments : c.post = p /\ c.author = posts[p].author

DeletedPosts == (1..(nextPost - 1)) \ DOMAIN posts

\* C6: when no request is in flight, no comment whose parent is a deleted
\* post remains.
C6_NoOrphanAfterDelete ==
  Quiescent => \A c \in comments : c.post \notin DeletedPosts

\* C7: every comment is created only while its parent post exists (an
\* addComment on a post id that does not exist persists no comment).
C7_CommentNeedsPost ==
  [][\A c \in comments' \ comments : c.post \in DOMAIN posts]_vars

C9_SelfFollowRejected ==
  [][\A r \in DOMAIN reqs :
       (reqs'[r] # reqs[r] /\ reqs'[r].op = "follow" /\ reqs'[r].user # 0
          /\ reqs'[r].target = reqs'[r].user)
         => /\ reqs'[r].pc = "done"
            /\ reqs'[r].status = BadRequest
            /\ users' = users
            /\ notifications' = notifications]_vars

\* a follow(A,A) has been answered 400
C9_Witness ==
  \E r \in DOMAIN reqs :
    /\ Done(r) /\ reqs[r].op = "follow" /\ reqs[r].user # 0
    /\ reqs[r].target = reqs[r].user
    /\ reqs[r].status = BadRequest

DeleteOps == {"deletePost", "adminDeletePost"}

\* C10: a post disappears only in the delete step of a request whose actor
\* is the post's author or has role admin; a delete request that is
\* answered 403 leaves the posts and the comments unchanged, and the
\* ownership guard answers 403 to every actor that is not the author.
C10_DeleteAuthorized ==
  [][/\ \A p \in DOMAIN posts \ DOMAIN posts' :
          \E r \in DOMAIN reqs :
            /\ reqs[r].op \in DeleteOps /\ reqs[r].pc = "deletePost"
            /\ reqs'[r].pc = "deleteComments" /\ reqs[r].target = p
            /\ (reqs[r].user = posts[p].author \/ reqs[r].role = "admin")
     /\ \A r \in DOMAIN reqs :
          /\ (reqs'[r] # reqs[r] /\ reqs'[r].op \in DeleteOps
                /\ reqs'[r].pc = "done" /\ reqs'[r].status = Forbidden)
               => (posts' = posts /\ comments' = comments)
          /\ (reqs[r].pc = "findPostDelete" /\ reqs'[r] # reqs[r]
                /\ reqs[r].target \in DOMAIN posts
                /\ posts[reqs[r].target].author # reqs[r].user)
               => (reqs'[r].pc = "done" /\ reqs'[r].status = Forbidden)
          /\ (reqs'[r].op = "adminDeletePost" /\ reqs'[r].pc = "deletePost")
               => reqs'[r].role = "admin"]_vars

\* a delete request of an identity that is neither the author nor an admin
\* has been answered 403 and the post and its comment are still there
C10_Witness ==
  /\ \E r \in DOMAIN reqs :
       Done(r) /\ reqs[r].op \in DeleteOps /\ reqs[r].status = Forbidden
  /\ \A r \in DOMAIN reqs : reqs[r].op # "ban"
  /\ 1 \in DOMAIN posts
  /\ \E c \in comments : c.post = 1

\* the fields of a user document that are not profile fields
Protected(doc) == <<doc.role, doc.banned, doc.followers, doc.following>>

\* C11: the update of PUT /api/profile leaves the role, the ban flag, the
\* followers and the following of every identity unchanged (so that no
\* profile update lets an identity pass the admin gate or puts it in its
\* own followers or following).
C11_ProfileFrame ==
  [][\A r \in DOMAIN reqs :
       (reqs[r].pc = "setProfile" /\ reqs'[r].pc = "done")
         => \A u \in UserIds : Protected(users'[u]) = Protected(users[u])]_vars

====
